---- MODULE Spec2Model ----
(***************************************************************************)
(* Model of ins/_internal/utils/outdated.py: the self-check state store    *)
(* (SelfCheckState) and the weekly version check (ins_version_check), run  *)
(* by several processes that share one cache directory.                    *)
(***************************************************************************)
EXTENDS Integers, Sequences, FiniteSets, TLC

\* ------------------------------------------------------------------ bounds
NProcs == 2        \* invocations of the tool (one process each)
MaxClock == 4      \* half-second steps the wall clock takes
T0 == 1000         \* epoch second of the timestamps already in the file

Procs == 1..NProcs
Keys == 1..NProcs  \* possible values of sys.prefix

\* ------------------------------------------------------------- data model
Week == 7 * 24 * 60 * 60

NoTimestamp == 0 - 1         \* the "last_check" key is not in the dict
NoVersion == "<absent>"      \* the "pypi_version" key is not in the dict
BadTimestamp == 0 - 2        \* a "last_check" string that is not in SELFCHECK_DATE_FMT
None == "<None>"

Versions == {"1.0", "1.0.post1", "2.0rc1", "2.0"}

\* A dict as stored under one environment key; {} has neither field.
EmptyState == [last_check |-> NoTimestamp, pypi_version |-> NoVersion]
NoSlot == [present |-> FALSE, entry |-> EmptyState]
Slot(e) == [present |-> TRUE, entry |-> e]
EmptyDoc == [k \in Keys |-> NoSlot]

\* the document whose only entry is e, under key k
OnlyEntry(k, e) == [EmptyDoc EXCEPT ![k] = Slot(e)]

\* The state file: absent, not JSON (an empty file included), JSON that is
\* not an object, or a JSON object keyed by environment key.
Absent == [kind |-> "absent", doc |-> EmptyDoc]
Corrupt == [kind |-> "corrupt", doc |-> EmptyDoc]
NonObject == [kind |-> "nonobject", doc |-> EmptyDoc]
Object(d) == [kind |-> "object", doc |-> d]

\* datetime: whole seconds and microseconds.
Datetime(s, us) == [sec |-> s, usec |-> us]
NoTime == Datetime(0, 0)

\* datetime.strftime(SELFCHECK_DATE_FMT): second precision, microseconds dropped.
strftime(dt) == dt.sec

\* datetime.strptime(s, SELFCHECK_DATE_FMT)
strptime(s) == Datetime(s, 0)

\* strptime raises ValueError for a string that does not match the format
strptime_raises(s) == s = BadTimestamp

\* a - b as a normalised timedelta (0 <= usec < 10^6)
timedelta(a, b) ==
    IF a.usec >= b.usec
    THEN [sec |-> a.sec - b.sec, usec |-> a.usec - b.usec]
    ELSE [sec |-> a.sec - b.sec - 1, usec |-> a.usec - b.usec + 1000000]

\* Variant: the window's upper end counted as fresh (<= for <).
IsFresh_inclusive(ct, lc) ==
    \/ timedelta(ct, lc).sec < Week
    \/ (timedelta(ct, lc).sec = Week /\ timedelta(ct, lc).usec = 0)

\* (current_time - last_check).total_seconds() < 7 * 24 * 60 * 60
IsFresh(ct, lc) == timedelta(ct, lc).sec < Week

\* packaging_version.parse: release number, then pre (-1) / final (0) / post (1)
parse(s) ==
    CASE s = "1.0" -> [base |-> 10, phase |-> 0]
      [] s = "1.0.post1" -> [base |-> 10, phase |-> 1]
      [] s = "2.0rc1" -> [base |-> 20, phase |-> 0 - 1]
      [] OTHER -> [base |-> 20, phase |-> 0]

VersionLess(a, b) == a.base < b.base \/ (a.base = b.base /\ a.phase < b.phase)

base_version(v) == v.base


\* ------------------------------------------------------------------ state
VARIABLES
    installed,       \* what get_installed_version("ins") finds: a version or None
    best,            \* the index's best candidate for "ins": a version or None
    prefix,          \* sys.prefix of each process (its environment key)
    disk,            \* content of <cache_dir>/selfcheck.json
    dirExists,       \* the cache directory exists
    lock,            \* holder of the LockFile on the state file path, 0 if free
    clock,           \* wall clock, in half seconds past T0 + Week - 1 s
    serial,          \* the invocations are started one after the other
    pc,              \* position of each process in ins_version_check / save
    statefile_path,  \* self.statefile_path is set (not None)
    state,           \* self.state, the entry loaded by __init__
    current_time,    \* current_time of ins_version_check
    pypi_version,    \* pypi_version of ins_version_check
    doc,             \* the local "state" document of save
    h,               \* what each invocation has done so far (history)
    lastWritten,     \* per key, the slot of the last completed json.dump (history)
    writeFailed,     \* some rewrite failed between truncation and dump (history)
    text,            \* selfcheck.json as text: separators, order of members
    lastSave         \* arguments of the preceding save of the text

env == <<installed, best, prefix, serial>>
fs == <<disk, dirExists, lock>>
locals == <<statefile_path, state, current_time, pypi_version, doc>>
hist == <<lastWritten, writeFailed>>
bytes == <<text, lastSave>>
vars == <<env, fs, clock, pc, locals, h, hist, bytes>>

\* History of one invocation.  While it runs: loadSaw, what __init__ found
\* (until the next step); queried, the index was asked; owned, the answer of
\* check_path_owner, and lockSaw, the file when the lock was taken (both
\* while in save).  Once it is over: outcome, "returned" for a normal return,
\* "swallowed" for an exception logged by the handler, "escaped" for an
\* exception that left ins_version_check; readCorrupt, the re-read of save
\* hit invalid JSON; prov, the answer of was_installed_by_ins (with queried
\* as it then was); warned, logger.warning was called.
NoHistory ==
    [outcome |-> "", loadSaw |-> "", queried |-> FALSE,
     owned |-> "", lockSaw |-> Absent, readCorrupt |-> FALSE,
     prov |-> "", warned |-> FALSE]

Outcome(o) == [NoHistory EXCEPT !.outcome = o]

\* datetime.datetime.utcnow() when the wall clock stands at c
utcnow(c) == Datetime(T0 + Week - 1 + (c \div 2), (c % 2) * 500000)

\* Entries a state file may hold before any process of the model runs.
FullEntry == [last_check |-> T0, pypi_version |-> "1.0.post1"]

InitEntries ==
    { FullEntry,
      [last_check |-> T0, pypi_version |-> "2.0"],
      [last_check |-> T0, pypi_version |-> NoVersion],
      [last_check |-> NoTimestamp, pypi_version |-> "2.0"],
      [last_check |-> BadTimestamp, pypi_version |-> "2.0"] }

InitDisksSeq ==
    {Absent, Corrupt, NonObject}
      \cup { Object(d) : d \in
                { f \in [Keys -> {NoSlot} \cup {Slot(e) : e \in InitEntries}] :
                    \A k \in Keys \ {1} : f[k] \in {NoSlot, Slot(FullEntry)} } }

InitDisks ==
    {Absent, Corrupt, NonObject, Object(EmptyDoc), Object([k \in Keys |-> Slot(FullEntry)]),
     Object(OnlyEntry(1, [last_check |-> BadTimestamp, pypi_version |-> "2.0"]))}

\* The state shared by every start: nobody holds the lock, no invocation is
\* under way.
InitCommon ==
    /\ dirExists \in BOOLEAN
    /\ (disk.kind # "absent" => dirExists)
    /\ lock = 0
    /\ clock = 0
    /\ pc = [p \in Procs |-> "off"]
    /\ statefile_path = [p \in Procs |-> FALSE]
    /\ state = [p \in Procs |-> EmptyState]
    /\ current_time = [p \in Procs |-> NoTime]
    /\ pypi_version = [p \in Procs |-> None]
    /\ doc = [p \in Procs |-> EmptyDoc]
    /\ h = [p \in Procs |-> NoHistory]
    /\ lastWritten = [k \in Keys |-> NoSlot]
    /\ writeFailed = FALSE

\* ------------------------------------------------- the state file as text
\* A JSON object as it stands in the file: the separators used and the
\* members in the order they are written, each entry with the order of its
\* two keys ("lp": last_check first, "pl": pypi_version first).
NoText == [exists |-> FALSE, separators |-> "", members |-> <<>>]
Text(seps, ms) == [exists |-> TRUE, separators |-> seps, members |-> ms]
Member(k, o, e) == [key |-> k, order |-> o, entry |-> e]
NoSave == [made |-> FALSE, repeated |-> FALSE, key |-> 0, version |-> None, at |-> 0]

InitBytes == text = NoText /\ lastSave = NoSave

\* The tool is invoked at any time, concurrently, each time from its own
\* environment or from the first one's; version 1.0 or nothing is installed
\* and the index offers 2.0 or nothing.
Init ==
    /\ disk \in InitDisks
    /\ InitCommon
    /\ installed \in {None, "1.0"}
    /\ best \in {None, "2.0"}
    /\ prefix \in {f \in [Procs -> Keys] : \A p \in Procs : f[p] \in {1, p}}
    /\ serial = FALSE
    /\ InitBytes

\* One environment invokes the tool, time after time, with any installed
\* version, any candidate on the index and any entries in the file.
InitSeq ==
    /\ disk \in InitDisksSeq
    /\ InitCommon
    /\ installed \in {None} \cup Versions
    /\ best \in {None} \cup Versions
    /\ prefix = [p \in Procs |-> 1]
    /\ serial = TRUE
    /\ InitBytes

\* ins_version = packaging_version.parse(installed_version)
ins_version == parse(installed)

Goto(p, l) == pc' = [pc EXCEPT ![p] = l]

\* ins_version_check is left: its locals and the SelfCheckState are gone.
Return(p) ==
    /\ pc' = [pc EXCEPT ![p] = "done"]
    /\ statefile_path' = [statefile_path EXCEPT ![p] = FALSE]
    /\ state' = [state EXCEPT ![p] = EmptyState]
    /\ current_time' = [current_time EXCEPT ![p] = NoTime]
    /\ pypi_version' = [pypi_version EXCEPT ![p] = None]
    /\ doc' = [doc EXCEPT ![p] = EmptyDoc]

\* An exception raised inside the try block reaches the handler
\* "except Exception: logger.debug(...)", after which the function returns.
Swallowed(p) ==
    /\ Return(p)
    /\ h' = [h EXCEPT ![p] = Outcome("swallowed")]

\* A return with nothing raised.
Returned(p) ==
    /\ Return(p)
    /\ h' = [h EXCEPT ![p] = Outcome("returned")]

\* ------------------------------------------------- ins_version_check, part 1
\* The tool is invoked: a process enters ins_version_check.
Launch(p) ==
    /\ pc[p] = "off"
    /\ serial => \A q \in Procs : pc[q] = IF q < p THEN "done" ELSE "off"
    /\ Goto(p, "start")
    /\ UNCHANGED <<env, bytes, fs, clock, locals, h, hist>>

\* Variant: the run goes on without looking at installed_version.
get_installed_version_unchecked(p) ==
    /\ pc[p] = "start"
    /\ Goto(p, "load")
    /\ UNCHANGED <<locals, h>>
    /\ UNCHANGED <<env, bytes, fs, clock, hist>>

\* installed_version = get_installed_version("ins"); return if there is none;
\* ins_version = parse(installed_version).  Both statements precede the try.
get_installed_version(p) ==
    /\ pc[p] = "start"
    /\ \/ /\ installed = None
          /\ Returned(p)
       \/ /\ installed # None
          /\ Goto(p, "load")
          /\ UNCHANGED <<locals, h>>
       \/ \* the lookup or the parse raises: no handler encloses lines 102-106
          /\ Return(p)
          /\ h' = [h EXCEPT ![p] = Outcome("escaped")]
    /\ UNCHANGED <<env, bytes, fs, clock, hist>>

\* Variant: ValueError (invalid JSON) left out of the except clause.
Suppressed_noValueError == {"IOError", "KeyError"}

\* The exceptions __init__ suppresses around open / json.load / [sys.prefix].
Suppressed == {"IOError", "ValueError", "KeyError"}

\* with open(path) as f: json.load(f)[sys.prefix]
\* The exception raised ("" if none) and the value obtained.
LoadResult(d, readable, key) ==
    IF d.kind = "absent" \/ ~readable THEN [exc |-> "IOError", value |-> EmptyState]
    ELSE IF d.kind = "corrupt" THEN [exc |-> "ValueError", value |-> EmptyState]
    ELSE IF d.kind = "nonobject" THEN [exc |-> "TypeError", value |-> EmptyState]
    ELSE IF ~d.doc[key].present THEN [exc |-> "KeyError", value |-> EmptyState]
    ELSE [exc |-> "", value |-> d.doc[key].entry]

LoadSaw(d, readable, key) ==
    IF d.kind = "absent" THEN "absent"
    ELSE IF ~readable THEN "unreadable"
    ELSE IF d.kind # "object" THEN d.kind
    ELSE IF ~d.doc[key].present THEN "nokey" ELSE "entry"

\* state = SelfCheckState(cache_dir=options.cache_dir)
SelfCheckState_init(p) ==
    /\ pc[p] = "load"
    /\ \E cache_dir \in {"", "cache"}, readable \in BOOLEAN :
         IF cache_dir = ""
         THEN /\ statefile_path' = [statefile_path EXCEPT ![p] = FALSE]
              /\ state' = [state EXCEPT ![p] = EmptyState]
              /\ Goto(p, "decide")
              /\ h' = [h EXCEPT ![p].loadSaw = "nocache"]
              /\ UNCHANGED <<current_time, pypi_version, doc>>
         ELSE LET r == LoadResult(disk, readable, prefix[p])
                  saw == LoadSaw(disk, readable, prefix[p])
              IN  IF r.exc = "" \/ r.exc \in Suppressed
                  THEN /\ statefile_path' = [statefile_path EXCEPT ![p] = TRUE]
                       /\ state' = [state EXCEPT ![p] = r.value]
                       /\ Goto(p, "decide")
                       /\ h' = [h EXCEPT ![p].loadSaw = saw]
                       /\ UNCHANGED <<current_time, pypi_version, doc>>
                  ELSE Swallowed(p)
    /\ UNCHANGED <<env, bytes, fs, clock, hist>>

\* "last_check" in state.state and "pypi_version" in state.state
HasBoth(e) == e.last_check # NoTimestamp /\ e.pypi_version # NoVersion

\* The cached version to use, None when a refresh is needed (lines 113-120).
CachedVersion(e, ct) ==
    IF HasBoth(e) /\ IsFresh(ct, strptime(e.last_check))
    THEN e.pypi_version
    ELSE None

\* current_time = utcnow(), read when the wall clock has moved on to c (time
\* passes between any two steps; it is observed only here); the freshness decision
ins_version_check_fresh(p) ==
    /\ pc[p] = "decide"
    /\ \E c \in clock..MaxClock :
         /\ clock' = c
         /\ IF HasBoth(state[p]) /\ strptime_raises(state[p].last_check)
            THEN \* ValueError inside the try: logged and swallowed at line 158
                 Swallowed(p)
            ELSE /\ current_time' = [current_time EXCEPT ![p] = utcnow(c)]
                 /\ LET v == CachedVersion(state[p], utcnow(c))
                    IN  /\ pypi_version' = [pypi_version EXCEPT ![p] = v]
                        /\ Goto(p, IF v = None THEN "query" ELSE "compare")
                 /\ h' = [h EXCEPT ![p].loadSaw = ""]
                 /\ UNCHANGED <<statefile_path, state, doc>>
    /\ UNCHANGED <<env, bytes, fs, hist>>

\* Variant: the candidate's version is compared without being saved.
ins_version_check_query_nosave(p) ==
    /\ pc[p] = "query"
    /\ \/ /\ best = None
          /\ Returned(p)
       \/ /\ best # None
          /\ pypi_version' = [pypi_version EXCEPT ![p] = best]
          /\ Goto(p, "compare")
          /\ h' = [h EXCEPT ![p].queried = TRUE]
          /\ UNCHANGED <<statefile_path, state, current_time, doc>>
       \/ /\ Swallowed(p)
    /\ UNCHANGED <<env, bytes, fs, clock, hist>>

\* Variant: a failed query is tried again from the load of the cache.
ins_version_check_query_retry(p) ==
    /\ pc[p] = "query"
    /\ \/ /\ best = None
          /\ Returned(p)
       \/ /\ best # None
          /\ pypi_version' = [pypi_version EXCEPT ![p] = best]
          /\ Goto(p, "save")
          /\ h' = [h EXCEPT ![p].queried = TRUE]
          /\ UNCHANGED <<statefile_path, state, current_time, doc>>
       \/ /\ Goto(p, "load")
          /\ UNCHANGED <<locals, h>>
    /\ UNCHANGED <<env, bytes, fs, clock, hist>>

\* candidate = finder.find_candidates("ins").get_best(); return if None;
\* pypi_version = str(candidate.version); then state.save(...) is called
ins_version_check_query(p) ==
    /\ pc[p] = "query"
    /\ \/ /\ best = None
          /\ Returned(p)
       \/ /\ best # None
          /\ pypi_version' = [pypi_version EXCEPT ![p] = best]
          /\ Goto(p, "save")
          /\ h' = [h EXCEPT ![p].queried = TRUE]
          /\ UNCHANGED <<statefile_path, state, current_time, doc>>
       \/ \* network or index failure
          /\ Swallowed(p)
    /\ UNCHANGED <<env, bytes, fs, clock, hist>>

\* ------------------------------------------------------ SelfCheckState.save
\* Variant: the early return for a missing path left out.
save_path_noreturn(p) ==
    /\ pc[p] = "save"
    /\ Goto(p, "owner")
    /\ UNCHANGED <<env, bytes, fs, clock, locals, h, hist>>

\* if not self.statefile_path: return
save_path(p) ==
    /\ pc[p] = "save"
    /\ Goto(p, IF statefile_path[p] THEN "owner" ELSE "compare")
    /\ UNCHANGED <<env, bytes, fs, clock, locals, h, hist>>

\* Variant: the answer of check_path_owner is not acted upon.
save_owner_ignored(p) ==
    /\ pc[p] = "owner"
    /\ \E owned \in BOOLEAN :
         /\ Goto(p, "ensure_dir")
         /\ h' = [h EXCEPT ![p].owned = IF owned THEN "yes" ELSE "no"]
    /\ UNCHANGED <<env, bytes, fs, clock, locals, hist>>

\* if not check_path_owner(os.path.dirname(self.statefile_path)): return
save_owner(p) ==
    /\ pc[p] = "owner"
    /\ \E owned \in BOOLEAN :
         /\ Goto(p, IF owned THEN "ensure_dir" ELSE "compare")
         /\ h' = [h EXCEPT ![p].owned = IF owned THEN "yes" ELSE "no"]
    /\ UNCHANGED <<env, bytes, fs, clock, locals, hist>>

\* ensure_dir(os.path.dirname(self.statefile_path))
save_ensure_dir(p) ==
    /\ pc[p] = "ensure_dir"
    /\ \/ /\ dirExists' = TRUE
          /\ Goto(p, "lock")
          /\ UNCHANGED <<locals, h>>
       \/ \* os.makedirs fails
          /\ ~dirExists
          /\ dirExists' = dirExists
          /\ Swallowed(p)
    /\ UNCHANGED <<env, bytes, disk, lock, clock, hist>>

\* LockFile.acquire() with no timeout: blocks until the lock is free.
CanAcquire(l, p) == l = 0

\* LockFile.release() on leaving the with block, normally or by an exception.
Release(l, p) == IF l = p THEN 0 ELSE l

\* Variant: the critical section entered without the with-block's lock.
save_acquire_unlocked(p) ==
    /\ pc[p] = "lock"
    /\ Goto(p, "read")
    /\ h' = [h EXCEPT ![p].lockSaw = disk]
    /\ UNCHANGED <<env, bytes, fs, clock, locals, hist>>

\* with lockfile.LockFile(self.statefile_path):
save_acquire(p) ==
    /\ pc[p] = "lock"
    /\ \/ /\ CanAcquire(lock, p)
          /\ lock' = p
          /\ Goto(p, "read")
          /\ h' = [h EXCEPT ![p].lockSaw = disk]
          /\ UNCHANGED locals
       \/ \* the lock file cannot be created (LockFailed)
          /\ lock' = lock
          /\ Swallowed(p)
    /\ UNCHANGED <<env, bytes, disk, dirExists, clock, hist>>

\* Variant: the document is started afresh instead of re-read.
SaveRead_fresh(d, readable) == [exc |-> "", doc |-> EmptyDoc]

\* if os.path.exists(path): state = json.load(open(path)) else: state = {}
\* followed by state[sys.prefix] = ...: the exception raised and the document.
SaveRead(d, readable) ==
    IF d.kind = "absent" THEN [exc |-> "", doc |-> EmptyDoc]
    ELSE IF ~readable THEN [exc |-> "IOError", doc |-> EmptyDoc]
    ELSE IF d.kind = "corrupt" THEN [exc |-> "ValueError", doc |-> EmptyDoc]
    ELSE IF d.kind = "nonobject" THEN [exc |-> "TypeError", doc |-> EmptyDoc]
    ELSE [exc |-> "", doc |-> d.doc]

\* {"last_check": current_time.strftime(SELFCHECK_DATE_FMT), "pypi_version": pypi_version}
NewEntry(v, ct) == [last_check |-> strftime(ct), pypi_version |-> v]

\* the re-read under the lock and the assignment of this key's entry
save_read(p) ==
    /\ pc[p] = "read"
    /\ \E readable \in BOOLEAN :
         LET r == SaveRead(disk, readable)
         IN  IF r.exc = ""
             THEN /\ doc' = [doc EXCEPT ![p] =
                        [r.doc EXCEPT ![prefix[p]] =
                            Slot(NewEntry(pypi_version[p], current_time[p]))]]
                  /\ Goto(p, "open")
                  /\ UNCHANGED <<statefile_path, state, current_time, pypi_version, h, lock>>
             ELSE /\ Return(p)
                  /\ h' = [h EXCEPT ![p] =
                        [Outcome("swallowed") EXCEPT !.readCorrupt = (r.exc = "ValueError")]]
                  /\ lock' = Release(lock, p)
    /\ UNCHANGED <<env, bytes, disk, dirExists, clock, hist>>

\* with open(self.statefile_path, "w") as statefile: the file is truncated
save_open(p) ==
    /\ pc[p] = "open"
    /\ \/ /\ disk' = Corrupt
          /\ Goto(p, "dump")
          /\ UNCHANGED <<locals, h, lock>>
       \/ \* the file cannot be opened for writing
          /\ disk' = disk
          /\ Swallowed(p)
          /\ lock' = Release(lock, p)
    /\ UNCHANGED <<env, bytes, dirExists, clock, hist>>

\* Variant: a failed write leaves the with block without releasing the lock.
save_dump_keepslock(p) ==
    /\ pc[p] = "dump"
    /\ \/ /\ disk' = Object(doc[p])
          /\ Goto(p, "unlock")
          /\ lastWritten' = [lastWritten EXCEPT ![prefix[p]] = doc[p][prefix[p]]]
          /\ UNCHANGED <<locals, h, lock, writeFailed>>
       \/ /\ disk' = disk
          /\ Swallowed(p)
          /\ lock' = lock
          /\ writeFailed' = TRUE
          /\ UNCHANGED lastWritten
    /\ UNCHANGED <<env, bytes, dirExists, clock>>

\* json.dump(state, statefile, sort_keys=True, separators=(",", ":")) and close
save_dump(p) ==
    /\ pc[p] = "dump"
    /\ \/ /\ disk' = Object(doc[p])
          /\ Goto(p, "unlock")
          /\ lastWritten' = [lastWritten EXCEPT ![prefix[p]] = doc[p][prefix[p]]]
          /\ UNCHANGED <<locals, h, lock, writeFailed>>
       \/ \* the write fails: the file stays truncated
          /\ disk' = disk
          /\ Swallowed(p)
          /\ lock' = Release(lock, p)
          /\ writeFailed' = TRUE
          /\ UNCHANGED lastWritten
    /\ UNCHANGED <<env, bytes, dirExists, clock>>

\* Variant: the with block is left with the lock still held.
save_release_keepslock(p) ==
    /\ pc[p] = "unlock"
    /\ lock' = lock
    /\ Goto(p, "compare")
    /\ doc' = [doc EXCEPT ![p] = EmptyDoc]
    /\ h' = [h EXCEPT ![p].lockSaw = Absent]
    /\ UNCHANGED <<env, bytes, disk, dirExists, clock, statefile_path, state,
                   current_time, pypi_version, hist>>

\* leaving the with block: the lock is released and save returns (its local
\* document goes out of scope)
save_release(p) ==
    /\ pc[p] = "unlock"
    /\ lock' = Release(lock, p)
    /\ Goto(p, "compare")
    /\ doc' = [doc EXCEPT ![p] = EmptyDoc]
    /\ h' = [h EXCEPT ![p].lockSaw = Absent]
    /\ UNCHANGED <<env, bytes, disk, dirExists, clock, statefile_path, state,
                   current_time, pypi_version, hist>>

\* ------------------------------------------------- ins_version_check, part 2
\* Variant: the base versions are not compared.
ShouldWarn_anyBase(iv, rv, byIns) == VersionLess(iv, rv) /\ byIns

\* ins_version < remote_version and
\* ins_version.base_version != remote_version.base_version and was_installed_by_ins('ins')
ShouldWarn(iv, rv, byIns) ==
    /\ VersionLess(iv, rv)
    /\ base_version(iv) # base_version(rv)
    /\ byIns

\* "and" short-circuits: was_installed_by_ins runs only if the rest holds
CallsProvenance(iv, rv) == ShouldWarn(iv, rv, TRUE)

\* remote_version = parse(pypi_version); the comparison; logger.warning
ins_version_check_compare(p) ==
    /\ pc[p] = "compare"
    /\ LET rv == parse(pypi_version[p])
       IN  \/ /\ ~CallsProvenance(ins_version, rv)
              /\ Returned(p)
           \/ /\ CallsProvenance(ins_version, rv)
              /\ \E byIns \in BOOLEAN :
                   h' = [h EXCEPT ![p] =
                          [Outcome("returned") EXCEPT
                              !.queried = h[p].queried,
                              !.prov = IF byIns THEN "true" ELSE "false",
                              !.warned = ShouldWarn(ins_version, rv, byIns)]]
              /\ Return(p)
           \/ \* the provenance lookup raises something other than DistributionNotFound
              /\ CallsProvenance(ins_version, rv)
              /\ Return(p)
              /\ h' = [h EXCEPT ![p] = [Outcome("swallowed") EXCEPT !.prov = "raise"]]
    /\ UNCHANGED <<env, bytes, fs, clock, hist>>

Step(p) ==
    \/ Launch(p)
    \/ get_installed_version(p)
    \/ SelfCheckState_init(p)
    \/ ins_version_check_fresh(p)
    \/ ins_version_check_query(p)
    \/ save_path(p)
    \/ save_owner(p)
    \/ save_ensure_dir(p)
    \/ save_acquire(p)
    \/ save_read(p)
    \/ save_open(p)
    \/ save_dump(p)
    \/ save_release(p)
    \/ ins_version_check_compare(p)

Next == \E p \in Procs : Step(p)

Spec == Init /\ [][Next]_vars

SpecSeq == InitSeq /\ [][Next]_vars

\* ------------------------------------------------- save, on the text
\* json.load: a dict in the order of the text; the separators are gone
json_load(t) == t.members

\* state[sys.prefix] = {"last_check": ..., "pypi_version": ...}: an existing
\* key keeps its place in the dict, a new key goes to the end
dict_setitem(d, k, e) ==
    IF \E i \in 1..Len(d) : d[i].key = k
    THEN [i \in 1..Len(d) |-> IF d[i].key = k THEN Member(k, "lp", e) ELSE d[i]]
    ELSE Append(d, Member(k, "lp", e))

\* the members of d in ascending order of their keys
SortedByKey(d) ==
    CHOOSE s \in [1..Len(d) -> {d[i] : i \in 1..Len(d)}] :
        \A i, j \in 1..Len(d) : i < j => s[i].key < s[j].key

\* Variant: json.dump without sort_keys=True.
json_dump_unsorted(d) == Text("compact", d)

\* json.dump(state, statefile, sort_keys=True, separators=(",", ":"))
json_dump(d) ==
    Text("compact", [i \in 1..Len(d) |-> [SortedByKey(d)[i] EXCEPT !.order = "lp"]])

\* lines 63-76 on the text of the file
SaveText(t, k, v, ct) ==
    json_dump(dict_setitem(IF t.exists THEN json_load(t) ELSE <<>>, k, NewEntry(v, ct)))

\* Texts of a state file with valid content, written by any program.
MemberLists ==
    {<<>>}
      \cup { <<Member(k, o, FullEntry)>> : k \in Keys, o \in {"lp", "pl"} }
      \cup { <<Member(k, o, FullEntry), Member(j, n, FullEntry)>> :
                 k \in Keys, j \in Keys, o \in {"lp", "pl"}, n \in {"lp"} }

InitTexts ==
    {NoText} \cup { Text(seps, ms) : seps \in {"compact", "spaced"},
                                     ms \in {m \in MemberLists :
                                                \A i, j \in 1..Len(m) : i # j => m[i].key # m[j].key} }

\* save(pypi_version, current_time) seen on the text of the file, by a
\* process whose sys.prefix is k: re-read, set the entry, dump.
save_text(k) ==
    \E v \in {"1.0", "2.0"}, c \in 0..MaxClock :
        /\ text' = SaveText(text, k, v, utcnow(c))
        /\ lastSave' = [made |-> TRUE,
                        repeated |-> (lastSave.made /\ lastSave.key = k
                                        /\ lastSave.version = v /\ lastSave.at = c),
                        key |-> k, version |-> v, at |-> c]
        /\ UNCHANGED <<env, fs, clock, pc, locals, h, hist>>

InitText ==
    /\ disk = Absent
    /\ InitCommon
    /\ dirExists
    /\ installed = None
    /\ best = None
    /\ prefix = [p \in Procs |-> p]
    /\ serial = TRUE
    /\ text \in InitTexts
    /\ lastSave = NoSave

NextText == \E k \in Keys : save_text(k)

SpecText == InitText /\ [][NextText]_vars

\* A step of p other than the failure to create its lock file: what the
\* process does when it is scheduled and the file system raises no LockFailed.
Proceed(p) == Step(p) /\ ~(pc[p] = "lock" /\ pc'[p] = "done")

\* Every process is scheduled again and again: a process that can go on
\* (its call returns, or the lock it polls for stays free) eventually does.
Fairness == \A p \in Procs : WF_vars(Proceed(p))

SpecFair == Init /\ [][Next]_vars /\ Fairness

\* ------------------------------------------------------------- properties
InSave(p) == pc[p] \in {"owner", "ensure_dir", "lock", "read", "open", "dump", "unlock"}
InCritical(p) == pc[p] \in {"read", "open", "dump", "unlock"}
Running(p) == pc[p] \in {"decide", "query", "save", "compare"} \/ InSave(p)
Rewriting == \E p \in Procs : pc[p] = "dump"
Stepped(p) == pc'[p] # pc[p]

\* C1: merge invariant.  Whenever no rewrite is under way (and none has
\* failed between truncating and writing the file), the file is a document
\* that holds, for every key, the entry of the last completed write for that
\* key: no writer for another key has lost or replaced it.
C1_MergeInvariant ==
    (~writeFailed /\ ~Rewriting) =>
        \A k \in Keys :
            lastWritten[k].present =>
                disk.kind = "object" /\ disk.doc[k] = lastWritten[k]

\* Two processes with different keys have both saved and returned.
C1_Witness ==
    \E p, q \in Procs :
        /\ prefix[p] # prefix[q]
        /\ pc[p] = "done" /\ pc[q] = "done"
        /\ lastWritten[prefix[p]].present /\ lastWritten[prefix[q]].present
        /\ ~writeFailed

\* C2: mutual exclusion of writers.  A process between the re-read and the
\* end of its rewrite holds the lock, and at most one process is there.
C2_MutualExclusion ==
    /\ \A p \in Procs : InCritical(p) => lock = p
    /\ Cardinality({p \in Procs : InCritical(p)}) <= 1

\* One process is rewriting the file while another waits for the lock.
C2_Witness ==
    \E p, q \in Procs : p # q /\ pc[p] = "dump" /\ pc[q] = "lock" /\ lock = p

\* C3: a successful save changes exactly one key.  Once json.dump has
\* completed, the file holds this key's new entry (the time at second
\* precision, the version) and every other key is as it was when the lock
\* was acquired.
C3_SaveChangesOneKey ==
    \A p \in Procs :
        pc[p] = "unlock" =>
            /\ disk.kind = "object"
            /\ disk.doc[prefix[p]] =
                 Slot([last_check |-> current_time[p].sec,
                       pypi_version |-> pypi_version[p]])
            /\ \A k \in Keys \ {prefix[p]} : disk.doc[k] = h[p].lockSaw.doc[k]

\* A save has completed on a file that held another key's entry.
C3_Witness ==
    \E p \in Procs : \E k \in Keys \ {prefix[p]} :
        /\ pc[p] = "unlock"
        /\ h[p].lockSaw.doc[k].present
        /\ disk.doc[k].present
        /\ current_time[p].usec # 0

\* C4: freshness boundary.  With both fields loaded and last_check = T (a
\* time in the stored format), the decision uses the cache (no query
\* follows) when current_time - T is below 7*24*3600 s and goes to the
\* remote query otherwise; with a field missing it always goes to the
\* remote query.  (T is a whole second, so
\* current_time - T < Week exactly when the whole seconds differ by less.)
C4_FreshnessBoundary ==
    [][\A p \in Procs :
          (pc[p] = "decide" /\ Stepped(p) /\ state[p].last_check # BadTimestamp) =>
              LET e == state[p]
                  ct == current_time'[p]
              IN  IF e.last_check # NoTimestamp /\ e.pypi_version # NoVersion
                  THEN IF ct.sec - e.last_check < 7 * 24 * 3600
                       THEN /\ pc'[p] = "compare"
                            /\ pypi_version'[p] = e.pypi_version
                            /\ ~h'[p].queried
                       ELSE pc'[p] = "query"
                  ELSE pc'[p] = "query"]_vars

\* An entry checked at T is found stale at exactly T + 7 days.
C4_Witness ==
    \E p \in Procs :
        /\ pc[p] = "query"
        /\ state[p].last_check = T0
        /\ state[p].pypi_version # NoVersion
        /\ current_time[p] = Datetime(T0 + 7 * 24 * 3600, 0)

\* C5: notification policy.  The comparison warns exactly when the installed
\* version is lower than the remote one, their base versions differ and the
\* provenance check answered that ins installed itself; nothing else warns.
C5_NotificationPolicy ==
    [][\A p \in Procs :
          /\ (pc[p] = "compare" /\ Stepped(p)) =>
                (h'[p].warned <=>
                    /\ VersionLess(parse(installed), parse(pypi_version[p]))
                    /\ parse(installed).base # parse(pypi_version[p]).base
                    /\ h'[p].prov = "true")
          /\ (pc[p] # "compare" /\ pc[p] # "done") => (h'[p].warned = h[p].warned)]_vars

\* A warning issued for a version taken from the fresh cache.
C5_Witness ==
    \E p \in Procs : pc[p] = "done" /\ h[p].warned /\ ~h[p].queried

\* C6: no exception escapes the self-check.  Whatever step raised, the
\* invocation ends in a normal return, without a warning.
C6_NoEscape ==
    \A p \in Procs :
        pc[p] = "done" => (h[p].outcome \in {"returned", "swallowed"}
                            /\ (h[p].outcome = "swallowed" => ~h[p].warned))

\* C7: save overwrites corruption.  A re-read under the lock that hits
\* invalid JSON raises nothing, and the save ends with the file holding
\* exactly this key's new entry.
C7_SaveOverwritesCorruption ==
    \A p \in Procs :
        h[p].readCorrupt =>
            /\ h[p].outcome # "swallowed"
            /\ (pc[p] = "unlock" =>
                  disk = Object(OnlyEntry(prefix[p],
                            NewEntry(pypi_version[p], current_time[p]))))

\* C8: ownership gate.  A save whose ownership check fails returns at once:
\* the step changes nothing in the file system and raises nothing, and only
\* a save whose check succeeded goes on to the directory, the lock and the file.
C8_OwnershipGate ==
    /\ [](\A p \in Procs :
            /\ h[p].owned = "no" => (pc[p] = "compare" /\ lock # p)
            /\ (InSave(p) /\ pc[p] # "owner") => h[p].owned = "yes")
    /\ [][\A p \in Procs :
            (Stepped(p) /\ (pc[p] = "owner" \/ h[p].owned = "no") /\ h'[p].owned # "yes")
                => UNCHANGED fs]_vars

\* The check has failed and save has returned; the directory is still missing.
C8_Witness ==
    \E p \in Procs : h[p].owned = "no" /\ pc[p] = "compare" /\ ~dirExists

\* C9: no-op mode.  Without a cache directory the object has an empty
\* entry and no path; the invocation then never checks ownership, makes the
\* directory, takes the lock or touches the file, and save raises nothing.
C9_NoOpMode ==
    /\ [](\A p \in Procs :
            /\ h[p].loadSaw = "nocache" =>
                  (pc[p] = "decide" /\ state[p] = EmptyState /\ ~statefile_path[p])
            /\ (Running(p) /\ ~statefile_path[p]) =>
                  /\ state[p] = EmptyState
                  /\ pc[p] \in {"decide", "query", "save", "compare"}
                  /\ h[p].owned = ""
                  /\ lock # p)
    /\ [][\A p \in Procs :
            (Stepped(p) /\ Running(p) /\ ~statefile_path[p])
                => /\ UNCHANGED fs
                   /\ (pc[p] = "save" => pc'[p] = "compare")]_vars

\* save has been called without a cache directory and has returned.
C9_Witness ==
    \E p \in Procs :
        pc[p] = "compare" /\ ~statefile_path[p] /\ h[p].queried /\ ~dirExists

\* C10: corrupt-file tolerance on load.  When the file is absent, unreadable,
\* not JSON, or an object without this key, __init__ raises nothing, the
\* loaded entry is empty and the file is left as it was.
C10_LoadTolerance ==
    [][\A p \in Procs :
          ( /\ pc[p] = "load" /\ Stepped(p)
            /\ h'[p].loadSaw # "nocache"
            /\ \/ disk.kind \in {"absent", "corrupt"}
               \/ (disk.kind = "object" /\ ~disk.doc[prefix[p]].present)
               \/ h'[p].loadSaw = "unreadable" )
          => /\ pc'[p] = "decide"
             /\ h'[p].outcome = ""
             /\ state'[p] = EmptyState
             /\ disk' = disk]_vars

\* The load has met a file that is not JSON and has gone on with an empty entry.
C10_Witness ==
    \E p \in Procs :
        /\ pc[p] = "decide"
        /\ h[p].loadSaw = "corrupt"
        /\ state[p] = EmptyState
        /\ disk = Corrupt

\* C11: lock release on every exit path.  A process holds the lock only
\* while it is between the re-read and the end of the with block: once save
\* has been left, by a return or by a failed re-read, parse or write, the
\* lock is no longer held by that process.
C11_LockReleased ==
    \A p \in Procs : lock = p => InCritical(p)

\* A write has failed inside the with block, the invocation is over and the
\* lock is free.
C11_Witness ==
    \E p \in Procs :
        pc[p] = "done" /\ h[p].outcome = "swallowed" /\ writeFailed /\ lock = 0

\* C12: last_check is monotonically non-decreasing per key.  Each completed
\* write for a key stores a last_check that is not below the one stored by
\* the previous completed write for that key, whichever processes wrote.
C12_LastCheckMonotonic ==
    [][\A k \in Keys :
          (lastWritten[k].present /\ lastWritten'[k].present) =>
              lastWritten'[k].entry.last_check >= lastWritten[k].entry.last_check]_vars

\* C13: invalid cached data is treated as absent.  With a loaded entry whose
\* last_check is not in the stored format, the decision goes on to the
\* remote query, as it does for an empty entry.
C13_InvalidTreatedAsAbsent ==
    [][\A p \in Procs :
          (pc[p] = "decide" /\ Stepped(p) /\ state[p].last_check = BadTimestamp)
              => pc'[p] = "query"]_vars

\* The states of the per-invocation state machine and its transitions; an
\* exception ends the run from any state.
Phase(l) ==
    CASE l = "off" -> "NOT_STARTED"
      [] l = "start" -> "START"
      [] l \in {"load", "decide"} -> "LOAD_CACHE"
      [] l = "query" -> "QUERY_REMOTE"
      [] l \in {"save", "owner", "ensure_dir", "lock", "read", "open", "dump", "unlock"} -> "SAVE"
      [] l = "compare" -> "COMPARE"
      [] OTHER -> "DONE"

Transitions ==
    { <<"NOT_STARTED", "START">>, <<"START", "LOAD_CACHE">>, <<"START", "DONE">>,
      <<"LOAD_CACHE", "COMPARE">>, <<"LOAD_CACHE", "QUERY_REMOTE">>, <<"LOAD_CACHE", "DONE">>,
      <<"QUERY_REMOTE", "SAVE">>, <<"QUERY_REMOTE", "DONE">>,
      <<"SAVE", "COMPARE">>, <<"SAVE", "DONE">>, <<"COMPARE", "DONE">> }

ChangesPhase(p) == Phase(pc'[p]) # Phase(pc[p])

\* the order of the steps in the text of ins_version_check and save
StepOrder ==
    << "off", "start", "load", "decide", "query", "save", "owner", "ensure_dir",
       "lock", "read", "open", "dump", "unlock", "compare", "done" >>

Position(l) == CHOOSE i \in 1..Len(StepOrder) : StepOrder[i] = l

\* C14: per-invocation state machine.  A run moves only along
\* START -> LOAD_CACHE -> (COMPARE | QUERY_REMOTE -> SAVE -> COMPARE) -> DONE
\* or to DONE; it leaves START for DONE without an exception only when the
\* installed version is unknown and QUERY_REMOTE for DONE without one only
\* when there is no candidate; once it has left a state it never re-enters
\* it, the query is made and the notice is given by one step each; and every
\* run that has started reaches DONE.
C14_StateMachine ==
    /\ [][\A p \in Procs :
            /\ ChangesPhase(p) => <<Phase(pc[p]), Phase(pc'[p])>> \in Transitions
            /\ (Phase(pc[p]) = "START" /\ pc'[p] = "done" /\ h'[p].outcome = "returned")
                  => installed = None
            /\ (Phase(pc[p]) = "QUERY_REMOTE" /\ pc'[p] = "done" /\ h'[p].outcome = "returned")
                  => best = None
            /\ (~h[p].queried /\ h'[p].queried) => Phase(pc[p]) = "QUERY_REMOTE" /\ ChangesPhase(p)
            /\ (~h[p].warned /\ h'[p].warned) => Phase(pc[p]) = "COMPARE" /\ ChangesPhase(p)
            /\ Stepped(p) => Position(pc'[p]) > Position(pc[p])]_vars
    /\ \A p \in Procs : (pc[p] = "start") ~> (pc[p] = "done")

\* A run has gone through the query, the save and the notice and is over.
C14_Witness ==
    \E p \in Procs :
        pc[p] = "done" /\ h[p].queried /\ h[p].warned /\ lastWritten[prefix[p]].present

\* save has been called and has not yet returned
SaveCalled(p) == pc[p] = "save" \/ InSave(p)

\* C15: save follows exactly the successful queries.  save is entered by
\* the query step and by no other, and always when the query returns a
\* candidate; while save runs the version is the candidate's and
\* current_time is the value read before the query, and that pair is what
\* a completed write stores; the comparison of a run that queried comes after
\* save has returned; a run outside save never changes the file.
C15_SaveFollowsQuery ==
    /\ [](\A p \in Procs :
            /\ SaveCalled(p) => (h[p].queried /\ best # None /\ pypi_version[p] = best)
            /\ (pc[p] = "compare" /\ h[p].queried) =>
                  (~statefile_path[p] \/ h[p].owned # ""))
    /\ [][\A p \in Procs :
            /\ (pc[p] = "query" /\ Stepped(p) /\ best # None /\ h'[p].outcome # "swallowed")
                  => pc'[p] = "save"
            /\ (pc'[p] = "save" /\ Stepped(p)) => pc[p] = "query"
            /\ ((pc[p] = "query" \/ SaveCalled(p)) /\ Stepped(p) /\ pc'[p] # "done")
                  => current_time'[p] = current_time[p]
            /\ (pc[p] = "dump" /\ pc'[p] = "unlock")
                  => disk'.doc[prefix[p]] =
                        Slot([last_check |-> current_time[p].sec, pypi_version |-> best])
            /\ (Stepped(p) /\ ~SaveCalled(p)) => disk' = disk]_vars

\* A save has stored the candidate's version and save has returned to a
\* comparison that will give no notice.
C15_Witness ==
    \E p \in Procs :
        /\ pc[p] = "compare"
        /\ h[p].queried
        /\ disk.kind = "object"
        /\ disk.doc[prefix[p]] = Slot([last_check |-> current_time[p].sec, pypi_version |-> best])
        /\ current_time[p].usec # 0
        /\ ~VersionLess(parse(installed), parse(best))

\* the two times are at least a week apart
WeekApart(a, b) == timedelta(a, b).sec >= Week \/ timedelta(b, a).sec >= Week

\* C16: checks are limited to once per week.  Two runs with the same key
\* that have both queried the index, got a candidate and passed the
\* ownership check, the file being a JSON object, hold current_time values
\* at least 7*24*3600 s apart.
C16_OncePerWeek ==
    \A p, q \in Procs :
        ( /\ p # q
          /\ prefix[p] = prefix[q]
          /\ h[p].queried /\ h[q].queried
          /\ h[p].owned = "yes" /\ h[q].owned = "yes"
          /\ pc[p] # "done" /\ pc[q] # "done"
          /\ disk.kind = "object" /\ ~writeFailed )
        => WeekApart(current_time[p], current_time[q])

\* the dicts with the members of d in any order
Reorderings(d) ==
    { s \in [1..Len(d) -> {d[i] : i \in 1..Len(d)}] :
        \A i, j \in 1..Len(d) : i # j => s[i] # s[j] }

\* C17: round-trip idempotence of save.  A save with the key, version and
\* time of the save before it leaves the text of the file as it was; the
\* text a save writes has compact separators and is the same for every
\* order in which the dict may hold the document's members.
C17_RoundTrip ==
    /\ [](lastSave.made =>
            /\ text.separators = "compact"
            /\ \A d \in Reorderings(json_load(text)) : json_dump(d) = text)
    /\ [][(lastSave'.repeated /\ lastSave'.made) => text' = text]_vars

\* The same save has been made twice on a file that holds two keys with
\* different entries.
C17_Witness ==
    /\ lastSave.repeated
    /\ Len(text.members) = 2
    /\ text.members[1].entry # text.members[2].entry

\* C18: no installed version.  When get_installed_version finds no version
\* the run returns from its first step, raising nothing: no run gets to the
\* load, the query, the save or the comparison, none warns, and the
\* directory, the lock and the file stay as they were.
C18_NoInstalledVersion ==
    /\ [](installed = None =>
            \A p \in Procs :
                /\ pc[p] \in {"off", "start", "done"}
                /\ state[p] = EmptyState /\ ~statefile_path[p]
                /\ h[p].loadSaw = "" /\ ~h[p].queried /\ ~h[p].warned
                /\ lock # p)
    /\ [][installed = None =>
            /\ UNCHANGED <<fs, hist>>
            /\ \A p \in Procs :
                  (pc[p] = "start" /\ Stepped(p) /\ h'[p].outcome # "escaped")
                      => (pc'[p] = "done" /\ h'[p].outcome = "returned")]_vars

\* A run has returned for want of an installed version, with a state file
\* in place and a candidate on the index.
C18_Witness ==
    \E p \in Procs :
        /\ installed = None
        /\ pc[p] = "done" /\ h[p].outcome = "returned"
        /\ best # None
        /\ disk.kind = "object" /\ disk.doc[prefix[p]].present

\* another process is between the re-read and the end of its with block
WriterInside(p) == \E q \in Procs \ {p} : pc[q] \in {"open", "dump", "unlock"}

\* C19: unlocked load against a concurrent writer.  A load made with a
\* cache directory while another process is rewriting the file raises
\* nothing, and the entry it loads is empty, or the one the last completed
\* write stored for this key, or, when no write for this key has completed,
\* one the file held for it from the start.
C19_UnlockedLoad ==
    [][\A p \in Procs :
          (pc[p] = "load" /\ Stepped(p) /\ WriterInside(p) /\ h'[p].loadSaw # "nocache")
          => /\ pc'[p] = "decide"
             /\ h'[p].outcome = ""
             /\ \/ state'[p] = EmptyState
                \/ /\ lastWritten[prefix[p]].present
                   /\ state'[p] = lastWritten[prefix[p]].entry
                \/ /\ ~lastWritten[prefix[p]].present
                   /\ state'[p] \in InitEntries]_vars

\* A load has met the file truncated by a writer for the same key and has
\* gone on with an empty entry.
C19_Witness ==
    \E p, q \in Procs :
        /\ p # q /\ prefix[p] = prefix[q]
        /\ pc[q] = "dump" /\ disk = Corrupt
        /\ pc[p] = "decide" /\ h[p].loadSaw = "corrupt" /\ state[p] = EmptyState

\* C20: lock progress.  Under fair scheduling a process that waits for the
\* lock acquires it (unless lockfile raises LockFailed, unable to create its
\* lock file), and a process that holds it leaves the critical section and
\* returns from save with the lock released; whenever some process waits,
\* the lock is free or held by a process inside the critical section, which
\* waits for nothing.
C20_LockProgress ==
    /\ \A p \in Procs :
          /\ (pc[p] = "lock") ~> (lock = p \/ (pc[p] = "done" /\ h[p].outcome = "swallowed"))
          /\ (lock = p) ~> (lock # p /\ ~InSave(p))
    /\ [](\A p \in Procs :
            pc[p] = "lock" =>
                \/ lock = 0
                \/ \E q \in Procs \ {p} : lock = q /\ InCritical(q) /\ ENABLED Proceed(q))

\* A process that passed the ownership check waits for the lock while
\* another has finished its rewrite and is about to release it.
C20_Witness ==
    \E p, q \in Procs :
        /\ p # q
        /\ pc[p] = "unlock" /\ lock = p
        /\ pc[q] = "lock" /\ h[q].owned = "yes"

====
